---- MODULE Spec2Model ----
(***************************************************************************)
(* Model of src/src/dom.rs: the node arena `Dom.map` addressed by          *)
(* `NodeHandle`s and the `TreeSink` operations implemented on `Dom`.       *)
(* A panic (`panic!("Not an element")`, `todo!()`) ends the run: the       *)
(* state in which it happened stays observable and no operation follows.   *)
(***************************************************************************)
EXTENDS Integers, Sequences, FiniteSets, TLC

VARIABLES map, document, op, ret, outcome, steps

vars == <<map, document, op, ret, outcome, steps>>

(* ---- bounds of the model ---- *)
MaxOps == 3
MaxAttrs == 2

(* ---- input alphabets ---- *)
QualNames == {"div", "p"}
AttrNames == {"class"}
AttrValues == {"a", "b"}
Tendrils == {"hi", "yo"}
PiTargets == {"xml-stylesheet"}
QuirksModes == {"Quirks", "NoQuirks"}
Doctypes ==
  { [name |-> "html", public_id |-> "", system_id |-> ""],
    [name |-> "math", public_id |-> "pub", system_id |-> "sys"] }

(* ---- Option<T> ---- *)
None == << >>
Some(x) == << x >>

(* ---- enum Node ---- *)
Document(doctype) == [kind |-> "Document", doctype |-> doctype]
Text(contents) == [kind |-> "Text", contents |-> contents]
Comment(contents) == [kind |-> "Comment", contents |-> contents]
Element(elem, qualified_name, parent, children) ==
  [kind |-> "Element", elem |-> elem, qualified_name |-> qualified_name,
   parent |-> parent, children |-> children]
ProcessingInstruction(target, contents) ==
  [kind |-> "ProcessingInstruction", target |-> target, contents |-> contents]

IsElement(m, h) == m[h].kind = "Element"

(* ---- the arena: HopSlotMap<NodeHandle, Node> ---- *)
Handles(m) == DOMAIN m
Size(m) == Cardinality(DOMAIN m)

RECURSIVE SetMax(_)
SetMax(S) ==
  IF S = {} THEN 0
  ELSE LET x == CHOOSE y \in S : TRUE
           r == SetMax(S \ {x})
       IN IF x > r THEN x ELSE r

NewKey(m) == SetMax(DOMAIN m) + 1
Insert(m, node) == [h \in DOMAIN m \cup {NewKey(m)} |->
                      IF h = NewKey(m) THEN node ELSE m[h]]

(* ---- html_tags::ElementOwned, as used through from_tag and set_attr ---- *)
Absent == "<absent>"
from_tag(tag) == [tag |-> tag, attrs |-> [n \in AttrNames |-> Absent]]
set_attr(elem, name, value) == [elem EXCEPT !.attrs[name] = value]

Attribute == [name : AttrNames, value : AttrValues]

RECURSIVE SeqsUpTo(_, _)
SeqsUpTo(S, n) ==
  IF n = 0 THEN { << >> }
  ELSE LET shorter == SeqsUpTo(S, n - 1)
       IN shorter \cup { Append(s, x) : s \in { t \in shorter : Len(t) = n - 1 }, x \in S }

AttrLists == SeqsUpTo(Attribute, MaxAttrs)

(* the attribute list applied back to front *)
RECURSIVE SetAttrs_Reversed(_, _)
SetAttrs_Reversed(elem, attrs) ==
  IF attrs = << >> THEN elem
  ELSE LET last == attrs[Len(attrs)]
       IN SetAttrs_Reversed(set_attr(elem, last.name, last.value),
                            SubSeq(attrs, 1, Len(attrs) - 1))

(* for attr in attrs { elem.set_attr(&attr.name.local, attr.value.to_string()) } *)
RECURSIVE SetAttrs(_, _)
SetAttrs(elem, attrs) ==
  IF attrs = << >> THEN elem
  ELSE SetAttrs(set_attr(elem, Head(attrs).name, Head(attrs).value), Tail(attrs))

(* ---- NodeOrText<Handle> ---- *)
AppendNode(node) == << "AppendNode", node >>
AppendText(contents) == << "AppendText", contents >>
NodeOrText(m) == { AppendNode(h) : h \in Handles(m) } \cup { AppendText(s) : s \in Tendrils }

(* a call is issued only while no earlier call has panicked; the driver issues at most MaxOps calls *)
Running == outcome = "ok" /\ steps < MaxOps /\ steps' = steps + 1

(* ---- Dom::default() ---- *)
Init ==
  /\ map = << >>
  /\ document = None
  /\ op = "default"
  /\ ret = << >>
  /\ outcome = "ok"
  /\ steps = 0

(* get_document without the `if let Some(doc) = self.document` arm *)
GetDocument_AlwaysInsert(m, d) ==
  [map |-> Insert(m, Document(None)), document |-> Some(NewKey(m)), ret |-> NewKey(m)]

(* ---- fn get_document: the map, the document slot and the handle returned ---- *)
GetDocument(m, d) ==
  IF d # None
    THEN [map |-> m, document |-> d, ret |-> d[1]]
    ELSE [map |-> Insert(m, Document(None)), document |-> Some(NewKey(m)), ret |-> NewKey(m)]

get_document ==
  /\ Running
  /\ op' = "get_document"
  /\ LET r == GetDocument(map, document)
     IN /\ map' = r.map
        /\ document' = r.document
        /\ ret' = r.ret
  /\ outcome' = "ok"

(* a default name returned for a node that is no Element, in place of the panic *)
elem_name_lenient(target) ==
  /\ Running
  /\ op' = "elem_name"
  /\ outcome' = "ok"
  /\ ret' = IF IsElement(map, target) THEN map[target].qualified_name ELSE ""
  /\ UNCHANGED <<map, document>>

(* ---- fn elem_name ---- *)
elem_name(target) ==
  /\ Running
  /\ op' = "elem_name"
  /\ IF IsElement(map, target)
       THEN outcome' = "ok" /\ ret' = map[target].qualified_name
       ELSE outcome' = "NotAnElement" /\ ret' = << >>
  /\ UNCHANGED <<map, document>>

(* the new Element's own handle stored as its parent in place of the document handle *)
CreateElement_ParentSelf(m, d, name, attrs) ==
  LET elem == SetAttrs(from_tag(name), attrs)
      r == GetDocument(m, d)
  IN [map |-> Insert(r.map, Element(elem, name, NewKey(r.map), << >>)),
      document |-> r.document,
      ret |-> NewKey(r.map)]

(* ---- fn create_element ---- *)
CreateElement(m, d, name, attrs) ==
  LET elem == SetAttrs(from_tag(name), attrs)
      r == GetDocument(m, d)
  IN [map |-> Insert(r.map, Element(elem, name, r.ret, << >>)),
      document |-> r.document,
      ret |-> NewKey(r.map)]

create_element(name, attrs) ==
  /\ Running
  /\ op' = "create_element"
  /\ LET r == CreateElement(map, document, name, attrs)
     IN /\ map' = r.map
        /\ document' = r.document
        /\ ret' = r.ret
  /\ outcome' = "ok"

(* ---- fn create_comment ---- *)
create_comment(contents) ==
  /\ Running
  /\ op' = "create_comment"
  /\ map' = Insert(map, Comment(contents))
  /\ ret' = NewKey(map)
  /\ outcome' = "ok"
  /\ UNCHANGED document

(* ---- fn create_pi ---- *)
create_pi(target, contents) ==
  /\ Running
  /\ op' = "create_pi"
  /\ map' = Insert(map, ProcessingInstruction(target, contents))
  /\ ret' = NewKey(map)
  /\ outcome' = "ok"
  /\ UNCHANGED document

(* children.insert(0, h) in place of children.push(h) *)
Push_Front(m, owner, h) == [m EXCEPT ![owner].children = << h >> \o @]

(* ---- fn append: children.push(h) on the Element behind `owner` ---- *)
Push(m, owner, h) == [m EXCEPT ![owner].children = Append(@, h)]

(* AppendNode arm: the list pushed to is the one of `node`, the value pushed is `parent` *)
AppendNodeOwner(parent, node) == node
AppendNodePushed(parent, node) == parent

(* the handle pushed without the Text node being inserted *)
AppendTextMap_NoInsert(m, parent, contents) ==
  IF IsElement(m, parent) THEN Push(m, parent, NewKey(m)) ELSE m

(* AppendText arm: the Text node is inserted before `parent` is matched *)
AppendTextMap(m, parent, contents) ==
  LET text == NewKey(m)
      m1 == Insert(m, Text(contents))
  IN IF IsElement(m1, parent) THEN Push(m1, parent, text) ELSE m1

Append_(name, parent, child) ==
  /\ Running
  /\ op' = name
  /\ ret' = << >>
  /\ UNCHANGED document
  /\ IF child[1] = "AppendNode"
       THEN LET owner == AppendNodeOwner(parent, child[2])
                pushed == AppendNodePushed(parent, child[2])
            IN IF IsElement(map, owner)
                 THEN /\ map' = Push(map, owner, pushed)
                      /\ outcome' = "ok"
                 ELSE /\ map' = map
                      /\ outcome' = "NotAnElement"
       ELSE /\ map' = AppendTextMap(map, parent, child[2])
            /\ outcome' = IF IsElement(map, parent) THEN "ok" ELSE "NotAnElement"

append(parent, child) == Append_("append", parent, child)

(* ---- fn append_based_on_parent_node: self.append(element, child) ---- *)
append_based_on_parent_node(element, prev_element, child) ==
  Append_("append_based_on_parent_node", element, child)

(* self.map.insert(..) in place of the assignment to self.map[doc] *)
AppendDoctype_InsertsNew(m, d, doctype) ==
  LET r == GetDocument(m, d)
  IN [map |-> Insert(r.map, Document(Some(doctype))),
      document |-> r.document]

(* a doctype that is set only while the Document has none *)
AppendDoctype_KeepsFirst(m, d, doctype) ==
  LET r == GetDocument(m, d)
  IN [map |-> IF r.map[r.ret].doctype = None
                THEN [r.map EXCEPT ![r.ret] = Document(Some(doctype))]
                ELSE r.map,
      document |-> r.document]

(* the Document written over the newest slot in place of the document's slot *)
AppendDoctype_OverwritesNewest(m, d, doctype) ==
  LET r == GetDocument(m, d)
  IN [map |-> [r.map EXCEPT ![SetMax(Handles(r.map))] = Document(Some(doctype))],
      document |-> r.document]

(* ---- fn append_doctype_to_document ---- *)
AppendDoctype(m, d, doctype) ==
  LET r == GetDocument(m, d)
  IN [map |-> [r.map EXCEPT ![r.ret] = Document(Some(doctype))],
      document |-> r.document]

append_doctype_to_document(doctype) ==
  /\ Running
  /\ op' = "append_doctype_to_document"
  /\ LET r == AppendDoctype(map, document, doctype)
     IN /\ map' = r.map
        /\ document' = r.document
  /\ ret' = << >>
  /\ outcome' = "ok"

(* ---- fn get_template_contents: todo!() ---- *)
get_template_contents(target) ==
  /\ Running
  /\ op' = "get_template_contents"
  /\ ret' = << >>
  /\ outcome' = "todo"
  /\ UNCHANGED <<map, document>>

(* comparison of the nodes behind the handles in place of the handles *)
SameNode_ByContents(x, y) == map[x] = map[y]

(* ---- fn same_node ---- *)
SameNode(x, y) == x = y

same_node(x, y) ==
  /\ Running
  /\ op' = "same_node"
  /\ ret' = SameNode(x, y)
  /\ outcome' = "ok"
  /\ UNCHANGED <<map, document>>

(* todo!() in place of the warning *)
set_quirks_mode_todo(mode) ==
  /\ Running
  /\ op' = "set_quirks_mode"
  /\ ret' = << >>
  /\ outcome' = "todo"
  /\ UNCHANGED <<map, document>>

(* ---- fn set_quirks_mode: a warning only ---- *)
set_quirks_mode(mode) ==
  /\ Running
  /\ op' = "set_quirks_mode"
  /\ ret' = << >>
  /\ outcome' = "ok"
  /\ UNCHANGED <<map, document>>

(* ---- fn parse_error: an error-level diagnostic only ---- *)
parse_error ==
  /\ Running
  /\ op' = "parse_error"
  /\ ret' = << >>
  /\ outcome' = "ok"
  /\ UNCHANGED <<map, document>>

(* ---- fn append_before_sibling: a warning, then a normal return ---- *)
append_before_sibling(sibling, new_node) ==
  /\ Running
  /\ op' = "append_before_sibling"
  /\ ret' = << >>
  /\ outcome' = "ok"
  /\ UNCHANGED <<map, document>>

(* ---- fn add_attrs_if_missing ---- *)
AddAttrs(elem, attrs) == SetAttrs(elem, attrs)

add_attrs_if_missing(target, attrs) ==
  /\ Running
  /\ op' = "add_attrs_if_missing"
  /\ ret' = << >>
  /\ UNCHANGED document
  /\ IF IsElement(map, target)
       THEN /\ map' = [map EXCEPT ![target].elem = AddAttrs(@, attrs)]
            /\ outcome' = "ok"
       ELSE /\ map' = map
            /\ outcome' = "NotAnElement"

(* self.map.remove(target) in place of the retain on the parent's list *)
remove_from_parent_frees(target) ==
  /\ Running
  /\ op' = "remove_from_parent"
  /\ ret' = << >>
  /\ UNCHANGED document
  /\ map' = [h \in Handles(map) \ {target} |-> map[h]]
  /\ outcome' = "ok"

(* children.retain(|&x| x != target) *)
Retain(children, target) == SelectSeq(children, LAMBDA x : x # target)

(* a silent return in place of the panic when the recorded parent is no Element *)
remove_from_parent_lenient(target) ==
  /\ Running
  /\ op' = "remove_from_parent"
  /\ ret' = << >>
  /\ UNCHANGED document
  /\ IF IsElement(map, target)
       THEN /\ map' = IF IsElement(map, map[target].parent)
                        THEN [map EXCEPT ![map[target].parent].children = Retain(@, target)]
                        ELSE map
            /\ outcome' = "ok"
       ELSE /\ map' = map
            /\ outcome' = "NotAnElement"

(* ---- fn remove_from_parent ---- *)
remove_from_parent(target) ==
  /\ Running
  /\ op' = "remove_from_parent"
  /\ ret' = << >>
  /\ UNCHANGED document
  /\ IF IsElement(map, target) /\ IsElement(map, map[target].parent)
       THEN /\ map' = [map EXCEPT ![map[target].parent].children = Retain(@, target)]
            /\ outcome' = "ok"
       ELSE /\ map' = map
            /\ outcome' = "NotAnElement"

(* ---- fn reparent_children: todo!() ---- *)
reparent_children(node, new_parent) ==
  /\ Running
  /\ op' = "reparent_children"
  /\ ret' = << >>
  /\ outcome' = "todo"
  /\ UNCHANGED <<map, document>>

Next ==
  \/ get_document
  \/ \E target \in Handles(map) : elem_name(target)
  \/ \E name \in QualNames, attrs \in AttrLists : create_element(name, attrs)
  \/ \E contents \in Tendrils : create_comment(contents)
  \/ \E target \in PiTargets, contents \in Tendrils : create_pi(target, contents)
  \/ \E parent \in Handles(map), child \in NodeOrText(map) : append(parent, child)
  \/ \E element \in Handles(map), prev_element \in Handles(map), child \in NodeOrText(map) :
        append_based_on_parent_node(element, prev_element, child)
  \/ \E doctype \in Doctypes : append_doctype_to_document(doctype)
  \/ \E target \in Handles(map) : get_template_contents(target)
  \/ \E x \in Handles(map), y \in Handles(map) : same_node(x, y)
  \/ \E mode \in QuirksModes : set_quirks_mode(mode)
  \/ parse_error
  \/ \E sibling \in Handles(map), new_node \in NodeOrText(map) : append_before_sibling(sibling, new_node)
  \/ \E target \in Handles(map), attrs \in AttrLists : add_attrs_if_missing(target, attrs)
  \/ \E target \in Handles(map) : remove_from_parent(target)
  \/ \E node \in Handles(map), new_parent \in Handles(map) : reparent_children(node, new_parent)

Spec == Init /\ [][Next]_vars

(* ---- vocabulary of the properties ---- *)
Range(seq) == { seq[i] : i \in DOMAIN seq }
Elements(m) == { h \in Handles(m) : IsElement(m, h) }
Occurrences(seq, h) == Cardinality({ i \in DOMAIN seq : seq[i] = h })

RECURSIVE SumOver(_, _)
SumOver(f, S) ==
  IF S = {} THEN 0
  ELSE LET x == CHOOSE y \in S : TRUE IN f[x] + SumOver(f, S \ {x})

(* how often handle h is listed as a child, over all Elements of the arena *)
TimesListed(m, h) ==
  SumOver([e \in Elements(m) |-> Occurrences(m[e].children, h)], Elements(m))

(* the trace a successful append(target, AppendNode(child)) leaves in the arena *)
WasAppended(m, target, child) ==
  /\ IsElement(m, child)
  /\ target \in Range(m[child].children)

(* C1: in the attach case of append(target, AppendNode(child)) with an Element
   target, child becomes the last entry of target's child list, which grows
   by exactly one, and target is not added to child's child list. *)
C1_AttachAddsChildToTarget ==
  [][\A target \in Handles(map), child \in Handles(map) :
       (append(target, AppendNode(child)) /\ IsElement(map, target)) =>
          /\ outcome' = "ok"
          /\ map'[target].children = Append(map[target].children, child)
          /\ (IsElement(map, child) /\ child # target) =>
                map'[child].children = map[child].children]_vars

(* C2: attach-case append to a target that resolves to a Text node fails with
   NotAnElement for every child handle and leaves the arena and the document
   handle as they were. *)
C2_AttachToTextFails ==
  [][\A target \in Handles(map), child \in Handles(map) :
       (append(target, AppendNode(child)) /\ map[target].kind = "Text") =>
          /\ outcome' = "NotAnElement"
          /\ map' = map
          /\ document' = document]_vars

(* C3: remove_from_parent(child), for an Element child that append attached to
   an Element p, completes without failure, leaves child out of p's child
   list and leaves child resolvable to the same node. *)
C3_RemoveFromParentDetaches ==
  [][\A child \in Handles(map), p \in Handles(map) :
       (remove_from_parent(child) /\ IsElement(map, p) /\ WasAppended(map, p, child)) =>
          /\ outcome' = "ok"
          /\ child \notin Range(map'[p].children)
          /\ child \in Handles(map')
          /\ map'[child].kind = "Element"
          /\ map'[child].qualified_name = map[child].qualified_name]_vars

(* C4: every node handle is listed in the child list of at most one Element,
   and at most once in that list. *)
C4_SingleParent ==
  \A h \in Handles(map) : TimesListed(map, h) <= 1

(* C5: get_document is idempotent: once the document handle is set it never
   changes, every call returns it, and a call made while it is set adds no
   node; only the call made while it is unset adds exactly one. *)
C5_GetDocumentIdempotent ==
  [][/\ document # None => document' = document
     /\ get_document =>
          /\ document' # None
          /\ ret' = document'[1]
          /\ document # None => map' = map
          /\ document = None => Size(map') = Size(map) + 1]_vars

(* get_document has returned the handle of a Document that is older than
   another node of the arena: this call created nothing *)
C5_Witness ==
  /\ op = "get_document"
  /\ ret = document[1]
  /\ \E h \in Handles(map) : h > ret

(* C6: the arena holds at most one Document node, and a set document field
   is the handle of that node. *)
C6_OneDocument ==
  /\ Cardinality({ h \in Handles(map) : map[h].kind = "Document" }) <= 1
  /\ document # None =>
       /\ document[1] \in Handles(map)
       /\ map[document[1]].kind = "Document"

(* append_doctype_to_document has overwritten the Document slot after
   create_element requested the document *)
C6_Witness ==
  /\ op = "append_doctype_to_document"
  /\ Elements(map) # {}
  /\ document # None
  /\ map[document[1]].doctype # None

(* C7: the arena is append-only: no step takes a handle out of the arena, so
   the number of nodes never decreases; remove_from_parent deletes no node. *)
C7_ArenaAppendOnly ==
  [][/\ Handles(map) \subseteq Handles(map')
     /\ Size(map') >= Size(map)]_vars

(* remove_from_parent has been called on an Element and the Element still
   resolves *)
C7_Witness ==
  /\ op = "remove_from_parent"
  /\ Elements(map) # {}

CreationOps == {"create_element", "create_comment", "create_pi"}

(* C8: same_node(a, b) holds exactly for a handle and itself, and the handle
   a creation call returns is a handle of the new arena on which same_node
   is false against every handle that existed before the call, also when
   the contents are identical. *)
C8_SameNodeIffSameCreation ==
  /\ [](\A a \in Handles(map), b \in Handles(map) : SameNode(a, b) <=> (a = b))
  /\ [][op' \in CreationOps =>
          /\ ret' \in Handles(map')
          /\ ret' \notin Handles(map)]_vars

(* two create_comment calls with identical contents have returned *)
C8_Witness ==
  /\ op = "create_comment"
  /\ \E a \in Handles(map) :
       /\ a # ret
       /\ map[a].kind = "Comment"
       /\ map[a] = map[ret]

(* C9: text-case append to an Element adds exactly one node, lengthens the
   target's child list by exactly one, the new last child is a fresh handle
   of a Text node with the given contents, and the earlier children keep
   their order. *)
C9_TextAppend ==
  [][\A parent \in Handles(map), s \in Tendrils :
       (append(parent, AppendText(s)) /\ IsElement(map, parent)) =>
          LET old == map[parent].children
              new == map'[parent].children
          IN /\ outcome' = "ok"
             /\ Size(map') = Size(map) + 1
             /\ Len(new) = Len(old) + 1
             /\ SubSeq(new, 1, Len(old)) = old
             /\ new[Len(new)] \notin Handles(map)
             /\ map'[new[Len(new)]] = Text(s)]_vars

(* a text append has succeeded on an Element that already had a child *)
C9_Witness ==
  /\ op = "append"
  /\ outcome = "ok"
  /\ \E e \in Elements(map) :
       LET c == map[e].children
       IN /\ Len(c) >= 2
          /\ map[c[Len(c)]].kind = "Text"
          /\ \A h \in Handles(map) : h <= c[Len(c)]

(* C10: add_attrs_if_missing on an Element keeps the value of every attribute
   the element already has, and gives an attribute it lacks a value only
   from the supplied list. *)
C10_AddAttrsOnlyIfMissing ==
  [][\A target \in Handles(map), attrs \in AttrLists :
       (add_attrs_if_missing(target, attrs) /\ IsElement(map, target)) =>
          /\ outcome' = "ok"
          /\ \A n \in AttrNames :
               LET before == map[target].elem.attrs[n]
                   after == map'[target].elem.attrs[n]
                   given == { attrs[i].value : i \in { j \in DOMAIN attrs : attrs[j].name = n } }
               IN IF before # Absent THEN after = before
                  ELSE IF given = {} THEN after = Absent
                  ELSE after \in given]_vars

(* C11: after append_doctype_to_document(name, public_id, system_id) the
   Document node's doctype holds exactly those three values, also when a
   doctype was set before; a document handle that was set is unchanged, the
   handle resolves to a Document node, and no other node is touched. *)
C11_DoctypeReplaced ==
  [][\A doctype \in Doctypes :
       append_doctype_to_document(doctype) =>
          /\ outcome' = "ok"
          /\ document' # None
          /\ document # None => document' = document
          /\ document'[1] \in Handles(map')
          /\ map'[document'[1]] = Document(Some(doctype))
          /\ \A h \in Handles(map) \ {document'[1]} : map'[h] = map[h]]_vars

(* the doctype of a Document that is older than another node reads as the
   second input, right after append_doctype_to_document *)
C11_Witness ==
  /\ op = "append_doctype_to_document"
  /\ document # None
  /\ \E h \in Handles(map) : h > document[1]
  /\ map[document[1]].doctype =
       Some([name |-> "math", public_id |-> "pub", system_id |-> "sys"])

(* C12: append_before_sibling and reparent_children each end in the fatal
   'unimplemented' outcome whenever they are called; neither returns
   normally. *)
C12_UnimplementedIsFatal ==
  op \in {"append_before_sibling", "reparent_children"} => outcome = "todo"

(* C13: create_element returns the fresh handle of one new Element with an
   empty child list whose parent is the sink's document handle, the only
   other node it may add being the Document when none existed; and in every
   state the parent field of every Element is the sink's document handle. *)
C13_ParentIsDocument ==
  /\ [](\A e \in Elements(map) : document # None /\ map[e].parent = document[1])
  /\ [][\A name \in QualNames, attrs \in AttrLists :
          create_element(name, attrs) =>
             /\ ret' \in Handles(map') \ Handles(map)
             /\ map'[ret'].kind = "Element"
             /\ map'[ret'].children = << >>
             /\ document' # None
             /\ map'[ret'].parent = document'[1]
             /\ map'[document'[1]].kind = "Document"
             /\ Size(map') = Size(map) + (IF document = None THEN 2 ELSE 1)
             /\ \A h \in Handles(map) : map'[h] = map[h]]_vars

(* create_element has returned a second Element while an earlier one already
   lists a child *)
C13_Witness ==
  /\ op = "create_element"
  /\ map[ret].kind = "Element"
  /\ map[ret].children = << >>
  /\ \E e \in Elements(map) : e # ret /\ map[e].children # << >>

(* C14: the qualified name recorded in an Element is the one passed to the
   create_element call that returned it and no later step changes it;
   elem_name returns that recorded name for an Element and fails with
   NotAnElement for a Document, Text, Comment or ProcessingInstruction. *)
C14_ElemName ==
  [][/\ \A h \in Elements(map) :
          /\ h \in Handles(map')
          /\ map'[h].kind = "Element"
          /\ map'[h].qualified_name = map[h].qualified_name
     /\ \A name \in QualNames, attrs \in AttrLists :
          create_element(name, attrs) => map'[ret'].qualified_name = name
     /\ \A target \in Handles(map) :
          elem_name(target) =>
             IF IsElement(map, target)
               THEN outcome' = "ok" /\ ret' = map[target].qualified_name
               ELSE outcome' = "NotAnElement"]_vars

(* elem_name has returned the name of an Element that was given a child
   after its creation *)
C14_Witness ==
  /\ op = "elem_name"
  /\ outcome = "ok"
  /\ \E e \in Elements(map) :
       /\ map[e].qualified_name = ret
       /\ map[e].children # << >>

(* the value of the last attribute called n in the list, Absent when the
   list has none *)
LastValue(attrs, n) ==
  LET at == { i \in DOMAIN attrs : attrs[i].name = n }
  IN IF at = {} THEN Absent ELSE attrs[SetMax(at)].value

(* C15: the Element made by create_element(name, attrs) records, for every
   attribute name, the value of the last attribute of that name in the
   list, and no value for a name the list does not contain. *)
C15_LastWriteWins ==
  [][\A name \in QualNames, attrs \in AttrLists :
       create_element(name, attrs) =>
          /\ map'[ret'].elem.tag = name
          /\ \A n \in AttrNames : map'[ret'].elem.attrs[n] = LastValue(attrs, n)]_vars

(* create_element has returned an Element with a recorded class value *)
C15_Witness ==
  /\ op = "create_element"
  /\ map[ret].kind = "Element"
  /\ map[ret].elem.attrs["class"] = "b"

(* C16: set_quirks_mode, parse_error, same_node and elem_name leave the arena
   and the document handle as they were, and set_quirks_mode, parse_error
   and same_node return normally, so that the next call can be issued. *)
C16_ObserversChangeNothing ==
  [][/\ op' \in {"set_quirks_mode", "parse_error", "same_node", "elem_name"} =>
          /\ map' = map
          /\ document' = document
     /\ op' \in {"set_quirks_mode", "parse_error", "same_node"} => outcome' = "ok"]_vars

(* set_quirks_mode has returned normally on an arena that holds an Element *)
C16_Witness ==
  /\ op = "set_quirks_mode"
  /\ outcome = "ok"
  /\ Elements(map) # {}

(* C17: remove_from_parent(target) fails with NotAnElement when target is no
   Element and when target is an Element whose recorded parent is no
   Element; in both cases the arena, child lists included, stays as it was. *)
C17_RemoveFromParentFails ==
  [][\A target \in Handles(map) :
       (/\ remove_from_parent(target)
        /\ \/ ~IsElement(map, target)
           \/ ~IsElement(map, map[target].parent)) =>
          /\ outcome' = "NotAnElement"
          /\ map' = map]_vars

(* remove_from_parent has failed on an arena in which an Element lists a child *)
C17_Witness ==
  /\ op = "remove_from_parent"
  /\ outcome = "NotAnElement"
  /\ \E e \in Elements(map) :
       /\ map[e].children # << >>
       /\ map[map[e].parent].kind = "Document"

(* C18: text-case append to a target that is no Element fails with
   NotAnElement and leaves the arena unchanged: no Text node is added. *)
C18_TextAppendToNonElementFails ==
  [][\A parent \in Handles(map), s \in Tendrils :
       (append(parent, AppendText(s)) /\ ~IsElement(map, parent)) =>
          /\ outcome' = "NotAnElement"
          /\ map' = map
          /\ Size(map') = Size(map)]_vars

(* C19: every handle stored in the child list of an Element, and the parent
   field of every Element, resolves to a node of the arena. *)
C19_NoDanglingHandles ==
  \A e \in Elements(map) :
    /\ map[e].parent \in Handles(map)
    /\ Range(map[e].children) \subseteq Handles(map)

(* a child list holds both a handle stored by attach-case append (it is no
   Text node) and the handle of a Text node *)
C19_Witness ==
  \E e \in Elements(map) :
    /\ \E h \in Range(map[e].children) : map[h].kind # "Text"
    /\ \E h \in Range(map[e].children) : map[h].kind = "Text"

(* C20: the node behind a handle keeps its variant: in every step each
   handle of the arena still resolves, to a node of the variant it had. *)
C20_VariantNeverChanges ==
  [][\A h \in Handles(map) :
       /\ h \in Handles(map')
       /\ map'[h].kind = map[h].kind]_vars

(* append_doctype_to_document has overwritten the Document while the arena
   also holds a node of another variant that is no Element *)
C20_Witness ==
  /\ op = "append_doctype_to_document"
  /\ \E h \in Handles(map) : map[h].kind \in {"Text", "Comment", "ProcessingInstruction"}
  /\ \E h \in Handles(map) : map[h].kind = "Document" /\ map[h].doctype # None

====
